---------------------------- MODULE Spec2Model ----------------------------
(***************************************************************************)
(* A model of temp_control: temp_control.c (src/unnamed/part_000) and the  *)
(* register access layer pi_helpers.h (src/pi_helpers.h).                  *)
(*                                                                         *)
(* Representation.  TLC's integers are 32-bit signed, so a 32-bit          *)
(* unsigned quantity cannot be a TLA+ number:                              *)
(*   - a peripheral register word (unsigned int) is the set of the bit     *)
(*     positions 0..31 that hold 1;  &, |, ~ and << are set operations;    *)
(*   - a size_t (32 bits on the Raspberry Pi 2, ARMv7) is a pair           *)
(*     <<hi, lo>> of 16-bit limbs, value hi * 65536 + lo;                  *)
(*   - an int is a TLA+ integer in -2^31 .. 2^31 - 1.                      *)
(***************************************************************************)
EXTENDS Integers, Sequences, FiniteSets

\* ------------------------------------------------------------------ words

\* the bit positions of an unsigned int
BitPos == 0 .. 31

\* int -> word: the two's complement bit pattern of n (C's conversion of an
\* int operand to unsigned int)
BitsOf(n) ==
    IF n >= 0 THEN {i \in 0 .. 30 : (n \div (2 ^ i)) % 2 = 1}
    ELSE BitPos \ {i \in 0 .. 30 : ((-(n + 1)) \div (2 ^ i)) % 2 = 1}

RECURSIVE SumPow(_)
\* the number whose 1 bits are the positions in s (s within 0..30)
SumPow(s) ==
    IF s = {} THEN 0
    ELSE LET i == CHOOSE x \in s : TRUE IN (2 ^ i) + SumPow(s \ {i})

\* word -> int: the value of the bit pattern read as a two's complement int
IntOf(w) ==
    IF 31 \in w THEN -(SumPow((0 .. 30) \ w)) - 1 ELSE SumPow(w)

\* C's ~, &, | and << on 32-bit words
Not32(w) == BitPos \ w
And32(a, b) == a \cap b
Or32(a, b) == a \cup b
Shl32(w, k) == {i + k : i \in w} \cap BitPos
\* >> on an unsigned word (zeros shifted in)
Shr32(w, k) == {i - k : i \in w} \cap BitPos

\* ----------------------------------------------------------------- size_t

Limb == 2 ^ 16

\* int -> size_t (conversion modulo 2^32)
SzOfInt(n) ==
    IF n >= 0 THEN <<n \div Limb, n % Limb>>
    ELSE <<(Limb - 1) - ((-(n + 1)) \div Limb), (Limb - 1) - ((-(n + 1)) % Limb)>>

\* unsigned a < b
SzLess(a, b) == a[1] < b[1] \/ (a[1] = b[1] /\ a[2] < b[2])

\* unsigned a + b, modulo 2^32
SzAdd(a, b) ==
    LET lo == a[2] + b[2]
        hi == a[1] + b[1] + (lo \div Limb)
    IN <<hi % Limb, lo % Limb>>

\* unsigned a - b, modulo 2^32
SzSub(a, b) ==
    LET lo == a[2] - b[2]
        hi == a[1] - b[1] - (IF lo < 0 THEN 1 ELSE 0)
    IN <<hi % Limb, lo % Limb>>

\* fmax(a, b) of two size_t converted to double and the result converted
\* back: every 32-bit value is exact in a double
SzFmax(a, b) == IF SzLess(a, b) THEN b ELSE a

\* ------------------------------------------------------------------ state

VARIABLES
    pc,            \* position of the process in main / check_temp (where it ended, once ended)
    argv,          \* the command line, argv[0] included; argc = Len(argv)
    target_temp,   \* main's size_t target_temp
    last_temp,     \* main's size_t last_temp
    overshoot,     \* main's size_t overshoot
    current_temp,  \* check_temp's size_t current_temp (the latest reading)
    one, two,      \* get_current_temp's char one, two (as int values)
    handler,       \* TRUE once sigaction(SIGINT, &act, NULL) has installed int_handler
    status,        \* <<"running">>, <<"exit", code>> or <<"signal">>
    gpio_mapped,   \* the pointer gpio has been set by pio_init
    spi_mapped,    \* the pointer spi0 has been set by spi_init
    char_signed,   \* the build's choice for plain char (implementation-defined)
    gpio,          \* GPIO register file: index 0..14 -> word
    spi,           \* SPI0 registers: cs (spi0[0]), tx/rx (spi0[1]), clk (spi0[2]), busy
    wr,            \* the register writes made by the last step, in order
    out,           \* console lines printed since the current loop iteration began
    seen_max,      \* the largest reading converted so far (history)
    entry_last,    \* last_temp as it was when the current iteration began (history)
    iter,          \* history of the iterations completed while they follow Scenario
    touched,       \* some peripheral register has been written (history)
    call,          \* the API call applied by the register-layer harness
    tmr,           \* system timer: mapped, cs (sys_timer[0]), clo ([1]), c1 ([4])
    slp            \* the sleep_micros call in progress: position, argument, history

vars == <<pc, argv, target_temp, last_temp, overshoot, current_temp, one, two,
          handler, status, gpio_mapped, spi_mapped, char_signed, gpio, spi,
          wr, out, seen_max, entry_last, iter, touched, call, tmr, slp>>

progVars == <<pc, argv, target_temp, last_temp, overshoot, current_temp, one, two,
              handler, status, gpio_mapped, spi_mapped, char_signed, spi,
              seen_max, entry_last, iter, touched, tmr, slp>>

\* ------------------------------------------------------- GPIO register file

\* word offsets from the gpio base (GPFSEL, GPSET, GPCLR, GPLEV)
GPFSEL == 0
GPSET == 7
GPCLR == 10
GPLEV == 13

GpioIndex == 0 .. 14

\* GPFSEL function codes
INPUT == 0
OUTPUT == 1
ALT0 == 4

CONTROLPIN == 17

\* What the peripheral does with a store of word v to gpio[i]: a function-select
\* register keeps the word; a store to a set register raises, and a store to a
\* clear register lowers, the levels of the pins whose bit is 1 in v (the set and
\* clear registers themselves hold nothing); any other offset ignores the store.
HwGpioStore(g, i, v) ==
    IF i \in GPFSEL .. GPFSEL + 5 THEN [g EXCEPT ![i] = v]
    ELSE IF i \in {GPSET, GPSET + 1}
         THEN [g EXCEPT ![i + (GPLEV - GPSET)] = Or32(@, v)]
    ELSE IF i \in {GPCLR, GPCLR + 1}
         THEN [g EXCEPT ![i + (GPLEV - GPCLR)] = And32(@, Not32(v))]
    ELSE g

\* A bus state while a function runs: the GPIO register file g, the SPI0
\* registers s, the writes w made so far and the lines o printed so far.
Bus(g, s) == [g |-> g, s |-> s, w |-> <<>>, o |-> <<>>]

\* gpio[i] = v
GpioStore(b, i, v) ==
    [b EXCEPT !.g = HwGpioStore(b.g, i, v), !.w = Append(b.w, <<"gpio", i, v>>)]

\* printf of one line
Printf(b, line) == [b EXCEPT !.o = Append(b.o, line)]

\* pin_mode without its clearing AND: the function bits are only ORed in
pin_mode_no_clear(b, pin, function) ==
    IF pin > 53 \/ pin < 0 THEN Printf(b, <<"bad pin", pin>>)
    ELSE LET offset == pin \div 10
             shift == (pin % 10) * 3
         IN GpioStore(b, offset, Or32(b.g[offset], Shl32(BitsOf(function), shift)))

\* void pin_mode(int pin, int function)
pin_mode(b, pin, function) ==
    IF pin > 53 \/ pin < 0 THEN Printf(b, <<"bad pin", pin>>)
    ELSE LET b0 == IF function > 7 \/ function < 0
                   THEN Printf(b, <<"bad function", function>>) ELSE b
             offset == pin \div 10
             shift == (pin % 10) * 3
             \* gpio[offset] &= ~((~function & 7) << shift);
             b1 == GpioStore(b0, offset,
                     And32(b0.g[offset],
                           Not32(Shl32(And32(Not32(BitsOf(function)), BitsOf(7)), shift))))
         \* gpio[offset] |= function << shift;
         IN GpioStore(b1, offset, Or32(b1.g[offset], Shl32(BitsOf(function), shift)))

\* digital_write that never selects the second register of a pair
digital_write_one_bank(b, pin, val) ==
    IF pin > 53 \/ pin < 0 THEN Printf(b, <<"bad pin", pin>>)
    ELSE IF val # 0
         THEN GpioStore(b, 7, Shl32(BitsOf(1), pin % 32))
         ELSE GpioStore(b, 10, Shl32(BitsOf(1), pin % 32))

\* void digital_write(int pin, int val)
digital_write(b, pin, val) ==
    IF pin > 53 \/ pin < 0 THEN Printf(b, <<"bad pin", pin>>)
    ELSE IF val # 0
         THEN GpioStore(b, IF pin < 32 THEN 7 ELSE 8, Shl32(BitsOf(1), pin % 32))
         ELSE GpioStore(b, IF pin < 32 THEN 10 ELSE 11, Shl32(BitsOf(1), pin % 32))

\* digital_read whose range check is off by one at the top (pin > 54)
digital_read_off_by_one(b, pin) ==
    IF pin > 54 \/ pin < 0 THEN [b |-> Printf(b, <<"bad pin", pin>>), ret |-> 0]
    ELSE IF pin < 32
         THEN [b |-> b, ret |-> IntOf(And32(Shr32(b.g[13], pin), BitsOf(1)))]
         ELSE [b |-> b, ret |-> IntOf(And32(Shr32(b.g[14], pin - 32), BitsOf(1)))]

\* int digital_read(int pin): the bus state after the call and the value returned
digital_read(b, pin) ==
    IF pin > 53 \/ pin < 0 THEN [b |-> Printf(b, <<"bad pin", pin>>), ret |-> 0]
    ELSE IF pin < 32
         THEN [b |-> b, ret |-> IntOf(And32(Shr32(b.g[13], pin), BitsOf(1)))]
         ELSE [b |-> b, ret |-> IntOf(And32(Shr32(b.g[14], pin - 32), BitsOf(1)))]

\* ------------------------------------------------- prior register content

\* how many prior register contents the harness and the boot state draw from
NumPatterns == 3

\* the k-th prior content of a register: all zeros, all ones, then mixed words
Pattern(k) ==
    IF k = 0 THEN {}
    ELSE IF k = 1 THEN BitPos
    ELSE {i \in BitPos : ((i + 1) * (k + 1) + (i \div 3)) % 3 = 0}

\* the register file the process finds: function-select and level registers
\* hold patterns k, k+1, ...; the offsets that store nothing read as zero
PriorGpio(k) ==
    [i \in GpioIndex |->
        IF i \in (GPFSEL .. GPFSEL + 5) \cup {GPLEV, GPLEV + 1}
        THEN Pattern((k + i) % NumPatterns) ELSE {}]

\* no API call has been applied
NoCall == [op |-> "none"]

\* the system timer as main leaves it: timer_init is never called, so
\* sys_timer is not mapped; the registers are not looked at
TimerOff == [mapped |-> FALSE, cs |-> {}, clo |-> SzOfInt(0), c1 |-> SzOfInt(0)]

\* no sleep call has been made
NoSleep == [pc |-> "idle", op |-> "none", micros |-> 0, t |-> SzOfInt(0), acc |-> <<>>,
            ticks |-> 0, t0 |-> 0, ticked |-> FALSE, hit |-> FALSE]

\* ------------------------------------------------------- SPI0 registers

\* the transfer-complete bit of spi0[0] (mask 0x00010000)
SPI_DONE == 16

\* What the peripheral does with a store of word v to spi0[i]: spi0[0] keeps the
\* word except for the transfer-complete bit, which the peripheral owns; a store
\* to spi0[1] hands the byte to the transmitter, which starts a transfer and
\* lowers the transfer-complete bit; spi0[2] keeps the clock divider.
HwSpiStore(s, i, v) ==
    IF i = 0 THEN [s EXCEPT !.cs = (v \ {SPI_DONE}) \cup (s.cs \cap {SPI_DONE})]
    ELSE IF i = 1 THEN [s EXCEPT !.tx = v, !.busy = TRUE, !.cs = @ \ {SPI_DONE}]
    ELSE IF i = 2 THEN [s EXCEPT !.clk = v]
    ELSE s

\* a load of spi0[i]
SpiLoad(s, i) == IF i = 0 THEN s.cs ELSE IF i = 1 THEN s.rx ELSE s.clk

\* spi0[i] = v
SpiStore(b, i, v) ==
    [b EXCEPT !.s = HwSpiStore(b.s, i, v), !.w = Append(b.w, <<"spi", i, v>>)]

\* unsigned int -> char: the low 8 bits, read as signed when plain char is signed
CharOf(w, signed) ==
    LET u == SumPow(w \cap (0 .. 7))
    IN IF signed /\ u >= 128 THEN u - 256 ELSE u

\* ------------------------------------------------------------ command line

LONG_MAX == 2147483647

DigitChars == <<"0", "1", "2", "3", "4", "5", "6", "7", "8", "9">>
IsDigit(ch) == \E d \in 1 .. 10 : DigitChars[d] = ch
DigitVal(ch) == (CHOOSE d \in 1 .. 10 : DigitChars[d] = ch) - 1

RECURSIVE StrtolDigits(_, _, _)
\* the magnitude of the digits of s from position i on, -1 once it exceeds LONG_MAX
StrtolDigits(s, i, acc) ==
    IF i > Len(s) \/ ~IsDigit(s[i]) THEN acc
    ELSE IF acc = -1 \/ acc > (LONG_MAX - DigitVal(s[i])) \div 10
         THEN StrtolDigits(s, i + 1, -1)
         ELSE StrtolDigits(s, i + 1, acc * 10 + DigitVal(s[i]))

RECURSIVE SkipSpace(_, _)
SkipSpace(s, i) == IF i <= Len(s) /\ s[i] = " " THEN SkipSpace(s, i + 1) ELSE i

\* strtol(s, NULL, 10) with a 32-bit long: leading blanks, an optional sign, the
\* decimal digits up to the first other character; 0 when there is no digit;
\* LONG_MAX or LONG_MIN when the value is out of range
strtol(s) ==
    LET i == SkipSpace(s, 1)
        neg == i <= Len(s) /\ s[i] = "-"
        j == IF i <= Len(s) /\ s[i] \in {"-", "+"} THEN i + 1 ELSE i
        m == StrtolDigits(s, j, 0)
    IN IF m = -1 THEN (IF neg THEN -LONG_MAX - 1 ELSE LONG_MAX)
       ELSE IF neg THEN -m ELSE m

\* the command lines tried: argv[0], then the arguments
ProgName == <<"t">>
Argvs ==
    { <<ProgName>>,
      <<ProgName, <<"5", "0">>, <<"6", "0">> >>,
      <<ProgName, <<"5", "0">> >>,
      <<ProgName, <<"3", "0">> >>,
      <<ProgName, <<" ", "7", "0">> >>,
      <<ProgName, <<"2", "9">> >>,
      <<ProgName, <<"7", "1">> >>,
      <<ProgName, <<"8", "0">> >>,
      <<ProgName, <<"-", "5">> >>,
      <<ProgName, <<"a", "b", "c">> >>,
      <<ProgName, <<>> >>,
      <<ProgName, <<"9", "9", "9", "9", "9", "9", "9", "9", "9", "9">> >> }

\* ------------------------------------------------------------------ main

\* values an uninitialised size_t may hold before its first assignment
Indeterminate == {SzOfInt(0), SzOfInt(57005)}

NoScenario == [n |-> 0, heat |-> <<>>, over |-> <<>>]

Init ==
    /\ pc = "main"
    /\ argv \in Argvs
    /\ target_temp \in Indeterminate
    /\ last_temp \in Indeterminate
    /\ overshoot \in Indeterminate
    /\ current_temp = SzOfInt(0)
    /\ one = 0
    /\ two = 0
    /\ handler = FALSE
    /\ status = <<"running">>
    /\ gpio_mapped = FALSE
    /\ spi_mapped = FALSE
    /\ char_signed \in BOOLEAN
    /\ \E k \in 0 .. NumPatterns - 1 : gpio = PriorGpio(k)
    /\ spi = [cs |-> {}, clk |-> {}, rx |-> {}, tx |-> {}, busy |-> FALSE]
    /\ wr = <<>>
    /\ out = <<>>
    /\ seen_max = SzOfInt(0)
    /\ entry_last = SzOfInt(0)
    /\ iter = NoScenario
    /\ touched = FALSE
    /\ call = NoCall
    /\ tmr = TimerOff
    /\ slp = NoSleep

\* the process is at position `from` and moves to position `to`
Goto(from, to) == pc = from /\ status = <<"running">> /\ pc' = to /\ status' = status

\* the process ends with exit status `code`; pc stays where the process ended
Exit(from, code) ==
    pc = from /\ status = <<"running">> /\ pc' = pc /\ status' = <<"exit", code>>

\* the effects of a function run on bus state b become the state's
Commit(b) ==
    /\ gpio' = b.g
    /\ spi' = b.s
    /\ wr' = b.w
    /\ out' = out \o b.o
    /\ touched' = (touched \/ b.w # <<>>)

NoBus == Commit(Bus(gpio, spi))

ctlVars == <<target_temp, last_temp, overshoot>>
locVars == <<current_temp, one, two>>
envVars == <<argv, char_signed, call, tmr, slp>>
mapVars == <<gpio_mapped, spi_mapped>>
histVars == <<seen_max, entry_last, iter>>

\* main, lines 110-114: if (argc != 2) { usage; return 1; }
main_check_argc ==
    \/ /\ Len(argv) # 2
       /\ Exit("main", 1)
       /\ Commit(Printf(Printf(Bus(gpio, spi), <<"usage">>), <<"usage">>))
       /\ UNCHANGED <<ctlVars, locVars, envVars, mapVars, histVars, handler>>
    \/ /\ Len(argv) = 2
       /\ Goto("main", "parse")
       /\ NoBus
       /\ UNCHANGED <<ctlVars, locVars, envVars, mapVars, histVars, handler>>

\* the range test with the lower bound itself rejected (<= 30)
target_out_of_range_strict(t) == SzLess(SzOfInt(70), t) \/ ~SzLess(SzOfInt(30), t)

\* the range test of line 118 on a size_t: target_temp > 70 || target_temp < 30
target_out_of_range(t) == SzLess(SzOfInt(70), t) \/ SzLess(t, SzOfInt(30))

\* main, lines 116-122: target_temp = strtol(argv[1], NULL, 10); range check
main_parse_target ==
    /\ pc = "parse"
    /\ LET t == SzOfInt(strtol(argv[2])) IN
       /\ target_temp' = t
       /\ \/ /\ target_out_of_range(t)
             /\ Exit("parse", 2)
             /\ Commit(Printf(Bus(gpio, spi), <<"invalid temperature">>))
          \/ /\ ~target_out_of_range(t)
             /\ Goto("parse", "pio_init")
             /\ NoBus
    /\ UNCHANGED <<last_temp, overshoot, locVars, envVars, mapVars, histVars, handler>>

\* a pio_init that keeps the mapping to itself: the pointer gpio is not set
pio_init_pointer_unset ==
    \/ /\ Exit("pio_init", 255)
       /\ Commit(Printf(Bus(gpio, spi), <<"gpio map failed">>))
       /\ UNCHANGED <<ctlVars, locVars, envVars, mapVars, histVars, handler>>
    \/ /\ Goto("pio_init", "spi_map")
       /\ NoBus
       /\ UNCHANGED <<ctlVars, locVars, envVars, mapVars, histVars, handler>>

\* pio_init, lines 59-84: open /dev/mem and map the GPIO block, or exit(-1)
pio_init ==
    \/ /\ Exit("pio_init", 255)
       /\ Commit(Printf(Bus(gpio, spi), <<"gpio map failed">>))
       /\ UNCHANGED <<ctlVars, locVars, envVars, mapVars, histVars, handler>>
    \/ /\ Goto("pio_init", "spi_map")
       /\ gpio_mapped' = TRUE
       /\ NoBus
       /\ UNCHANGED <<ctlVars, locVars, envVars, spi_mapped, histVars, handler>>

\* spi_init, lines 225-248: open /dev/mem and map the SPI0 block, or exit(-1)
spi_init_map ==
    \/ /\ Exit("spi_map", 255)
       /\ Commit(Printf(Bus(gpio, spi), <<"spi map failed">>))
       /\ UNCHANGED <<ctlVars, locVars, envVars, mapVars, histVars, handler>>
    \/ /\ Goto("spi_map", "spi_pin8")
       /\ spi_mapped' = TRUE
       /\ NoBus
       /\ UNCHANGED <<ctlVars, locVars, envVars, gpio_mapped, histVars, handler>>

SpiPinPc == [n \in 8 .. 12 |->
                IF n = 8 THEN "spi_pin8" ELSE IF n = 9 THEN "spi_pin9"
                ELSE IF n = 10 THEN "spi_pin10" ELSE IF n = 11 THEN "spi_pin11"
                ELSE "spi_clk"]

\* spi_init, lines 251-254: pin_mode(8..11, ALT0), one call per step
spi_init_pins ==
    /\ \E n \in 8 .. 11 :
          /\ Goto(SpiPinPc[n], SpiPinPc[n + 1])
          /\ Commit(pin_mode(Bus(gpio, spi), n, ALT0))
    /\ UNCHANGED <<ctlVars, locVars, envVars, mapVars, histVars, handler>>

\* spi_init, line 256: spi0[2] = 250000000 / freq
spi_init_clock(b, freq) == SpiStore(b, 2, BitsOf(250000000 \div freq))
\* spi_init, line 257: spi0[0] = settings
spi_init_settings(b, settings) == SpiStore(b, 0, BitsOf(settings))
\* a transfer-enable step that stores the bit alone, dropping the settings
spi_init_enable_overwrites(b) == SpiStore(b, 0, BitsOf(128))

\* spi_init, line 258: spi0[0] |= 0x00000080
spi_init_enable(b) == SpiStore(b, 0, Or32(SpiLoad(b.s, 0), BitsOf(128)))

\* spi_init(freq, settings), lines 251-258: everything after the mapping
spi_init(b, freq, settings) ==
    LET b8 == pin_mode(b, 8, ALT0)
        b9 == pin_mode(b8, 9, ALT0)
        b10 == pin_mode(b9, 10, ALT0)
        b11 == pin_mode(b10, 11, ALT0)
    IN spi_init_enable(spi_init_settings(spi_init_clock(b11, freq), settings))

\* spi_init(244000, 0), lines 256-258, one register statement per step
spi_init_regs ==
    /\ \/ /\ Goto("spi_clk", "spi_cs")
          /\ Commit(spi_init_clock(Bus(gpio, spi), 244000))
       \/ /\ Goto("spi_cs", "spi_ta")
          /\ Commit(spi_init_settings(Bus(gpio, spi), 0))
       \/ /\ Goto("spi_ta", "pin17")
          /\ Commit(spi_init_enable(Bus(gpio, spi)))
    /\ UNCHANGED <<ctlVars, locVars, envVars, mapVars, histVars, handler>>

\* main, line 126: pin_mode(CONTROLPIN, OUTPUT)
main_pin_mode ==
    /\ Goto("pin17", "init_vars")
    /\ Commit(pin_mode(Bus(gpio, spi), CONTROLPIN, OUTPUT))
    /\ UNCHANGED <<ctlVars, locVars, envVars, mapVars, histVars, handler>>

\* main, lines 128-129: last_temp = 0; overshoot = 0
main_init_vars ==
    /\ Goto("init_vars", "sigaction")
    /\ last_temp' = SzOfInt(0)
    /\ overshoot' = SzOfInt(0)
    /\ NoBus
    /\ UNCHANGED <<target_temp, locVars, envVars, mapVars, histVars, handler>>

\* a main that goes into its loop without having installed the handler
main_sigaction_skipped ==
    /\ Goto("sigaction", "loop")
    /\ NoBus
    /\ UNCHANGED <<ctlVars, locVars, envVars, mapVars, histVars, handler>>

\* main, lines 133-135: sigaction(SIGINT, &act, NULL) with act.sa_handler =
\* int_handler.  act's other members are never set; whatever they hold, the
\* handler is installed, and since it does not return its flags and mask have
\* no further effect.
main_sigaction ==
    /\ Goto("sigaction", "loop")
    /\ handler' = TRUE
    /\ NoBus
    /\ UNCHANGED <<ctlVars, locVars, envVars, mapVars, histVars>>

\* ------------------------------------------------------------ check_temp

\* the heater is on: the level of CONTROLPIN is high
HeaterOn(g) == CONTROLPIN \in g[GPLEV]

\* the readings of the control-loop scenario, with target 50
Scenario == <<45, 45, 52, 52, 49>>
OffScenario == [n |-> -1, heat |-> <<>>, over |-> <<>>]

\* bytes the converter may answer: to the command byte 0x68, and to 0x00
FirstBytes == {0, 1, 253}
SecondBytes == {39, 66, 72, 85, 128, 255}

\* main, lines 138-139: while (1) check_temp(...): one more iteration begins
check_temp_enter ==
    /\ Goto("loop", "send1")
    /\ entry_last' = last_temp
    /\ out' = <<>>
    /\ wr' = <<>>
    /\ UNCHANGED <<ctlVars, locVars, envVars, mapVars, seen_max, iter, handler,
                   gpio, spi, touched>>

\* spi_send_receive, line 271: spi0[1] = send
spi_send(b, send) == SpiStore(b, 1, BitsOf(send))

\* a wait that gives up at once: the loop ends whatever spi0[0] holds
spi_transfer_done_no_wait(s) == TRUE

\* spi_send_receive, line 272: while (!(spi0[0] & 0x00010000)); ends when the
\* load of spi0[0] has the transfer-complete bit
spi_transfer_done(s) == SPI_DONE \in SpiLoad(s, 0)

\* get_current_temp, lines 62-63 with spi_send_receive, lines 271-273: the
\* store of the byte, the wait for the transfer-complete bit, the load of the
\* answer into one (first call) or two (second call)
spi_send_receive ==
    \/ /\ \/ Goto("send1", "poll1") /\ Commit(spi_send(Bus(gpio, spi), 104))
          \/ Goto("send2", "poll2") /\ Commit(spi_send(Bus(gpio, spi), 0))
       /\ UNCHANGED <<ctlVars, locVars, envVars, mapVars, histVars, handler>>
    \/ /\ spi_transfer_done(spi)
       /\ Goto("poll1", "recv1") \/ Goto("poll2", "recv2")
       /\ NoBus
       /\ UNCHANGED <<ctlVars, locVars, envVars, mapVars, histVars, handler>>
    \/ /\ Goto("recv1", "send2")
       /\ one' = CharOf(SpiLoad(spi, 1), char_signed)
       /\ NoBus
       /\ UNCHANGED <<ctlVars, current_temp, two, envVars, mapVars, histVars, handler>>
    \/ /\ Goto("recv2", "convert")
       /\ two' = CharOf(SpiLoad(spi, 1), char_signed)
       /\ NoBus
       /\ UNCHANGED <<ctlVars, current_temp, one, envVars, mapVars, histVars, handler>>

\* The converter completes the transfer in flight: the answer byte is in
\* spi0[1] and the transfer-complete bit of spi0[0] is set.  Nothing obliges it
\* to answer.
spi_slave_answers ==
    /\ status = <<"running">>
    /\ spi.busy
    /\ \E byte \in (IF spi.tx = BitsOf(104) THEN FirstBytes ELSE SecondBytes) :
          spi' = [spi EXCEPT !.rx = BitsOf(byte), !.cs = @ \cup {SPI_DONE}, !.busy = FALSE]
    /\ wr' = <<>>
    /\ UNCHANGED <<pc, status, ctlVars, locVars, envVars, mapVars, histVars, handler,
                   gpio, out, touched>>

\* get_current_temp, lines 65-67: the response assembled from the two chars
adc_response(o, t) ==
    LET r == IntOf(Shl32(Or32(BitsOf(0), And32(BitsOf(o), BitsOf(3))), 8))
    IN IntOf(Or32(BitsOf(r), BitsOf(t)))

\* get_current_temp, lines 69-70: 31.25 * ((response * 5) / 1024.0) is the
\* double response * 625 / 4096, exact; this is its numerator over 4096
temp_times_4096(response) == response * 625

\* check_temp, line 85: (size_t) of the double num / 4096.  The fraction is
\* dropped; a value of -1 or less is outside size_t and the conversion is
\* undefined: a saturating conversion gives 0, a wrapping one the value
\* modulo 2^32.
size_t_of_double(num) ==
    IF num >= 0 THEN {SzOfInt(num \div 4096)}
    ELSE IF num > -4096 THEN {SzOfInt(0)}
    ELSE {SzOfInt(0), SzOfInt(-((-num) \div 4096))}

\* check_temp, lines 84-85: current_temp = (size_t) get_current_temp()
check_temp_read ==
    /\ Goto("convert", "cmp_last")
    /\ \E c \in size_t_of_double(temp_times_4096(adc_response(one, two))) :
          /\ current_temp' = c
          /\ seen_max' = (IF SzLess(seen_max, c) THEN c ELSE seen_max)
    /\ one' = 0
    /\ two' = 0
    /\ NoBus
    /\ UNCHANGED <<ctlVars, envVars, mapVars, entry_last, iter, handler>>

\* printf's %lu of a size_t: the decimal numeral of the unsigned value, never
\* with a minus sign
FormatLu(v) == [neg |-> FALSE, mag |-> v]

\* check_temp, line 88: current_temp != *(last_temp)
reading_always_changed(c, last) == TRUE
reading_changed(c, last) == c # last

\* the value printed by line 92: *(overshoot) - *(target_temp), a size_t
overshoot_report(ov, t) == SzSub(ov, t)

\* check_temp, lines 88-94: the console report, one statement per step
check_temp_report ==
    \/ /\ \/ reading_changed(current_temp, last_temp) /\ Goto("cmp_last", "print_temp")
          \/ ~reading_changed(current_temp, last_temp) /\ Goto("cmp_last", "heater")
       /\ NoBus
       /\ UNCHANGED <<ctlVars, locVars, envVars, mapVars, histVars, handler>>
    \/ /\ Goto("print_temp", "set_last")
       /\ Commit(Printf(Bus(gpio, spi), <<"current temp", FormatLu(current_temp)>>))
       /\ UNCHANGED <<ctlVars, locVars, envVars, mapVars, histVars, handler>>
    \/ /\ Goto("set_last", "cmp_target")
       /\ last_temp' = current_temp
       /\ NoBus
       /\ UNCHANGED <<target_temp, overshoot, locVars, envVars, mapVars, histVars, handler>>
    \/ /\ \/ ~SzLess(current_temp, target_temp) /\ Goto("cmp_target", "print_over")
          \/ SzLess(current_temp, target_temp) /\ Goto("cmp_target", "heater")
       /\ NoBus
       /\ UNCHANGED <<ctlVars, locVars, envVars, mapVars, histVars, handler>>
    \/ /\ Goto("print_over", "heater")
       /\ Commit(Printf(Bus(gpio, spi),
                        <<"overshoot", FormatLu(overshoot_report(overshoot, target_temp))>>))
       /\ UNCHANGED <<ctlVars, locVars, envVars, mapVars, histVars, handler>>

\* the heater comparison with <= in place of <
heater_write_le(b, c, t) ==
    IF ~SzLess(t, c) THEN digital_write(b, CONTROLPIN, 1)
    ELSE digital_write(b, CONTROLPIN, 0)

\* check_temp, lines 96-102: the heater pin follows current_temp < target_temp
heater_write(b, c, t) ==
    IF SzLess(c, t) THEN digital_write(b, CONTROLPIN, 1)
    ELSE digital_write(b, CONTROLPIN, 0)

check_temp_heater ==
    /\ Goto("heater", "update")
    /\ Commit(heater_write(Bus(gpio, spi), current_temp, target_temp))
    /\ UNCHANGED <<ctlVars, locVars, envVars, mapVars, histVars, handler>>

\* the overshoot overwritten by the reading instead of the maximum
overshoot_update_last(c, ov) == c

\* check_temp, line 104: *(overshoot) = fmax(current_temp, *(overshoot))
overshoot_update(c, ov) == SzFmax(c, ov)

\* the overshoot values printed in the lines o
OvershootLines(o) == SelectSeq(o, LAMBDA l : l[1] = "overshoot")
\* the temperature lines in o
TempLines(o) == SelectSeq(o, LAMBDA l : l[1] = "current temp")

\* the scenario history after an iteration that read c and left the state g, o
ScenarioStep(it, c, t, g, o) ==
    IF /\ it.n >= 0 /\ it.n < Len(Scenario)
       /\ t = SzOfInt(50)
       /\ c = SzOfInt(Scenario[it.n + 1])
    THEN [n |-> it.n + 1,
          heat |-> Append(it.heat, HeaterOn(g)),
          over |-> it.over \o [k \in 1 .. Len(OvershootLines(o)) |-> OvershootLines(o)[k][2]]]
    ELSE OffScenario

\* check_temp, lines 104-105: the running maximum, and the return to the loop
check_temp_update ==
    /\ Goto("update", "loop")
    /\ overshoot' = overshoot_update(current_temp, overshoot)
    /\ iter' = ScenarioStep(iter, current_temp, target_temp, gpio, out)
    /\ NoBus
    /\ UNCHANGED <<target_temp, last_temp, locVars, envVars, mapVars, seen_max,
                   entry_last, handler>>

\* ---------------------------------------------------------------- SIGINT

\* a handler that writes the pin high instead of low
int_handler_sets(b) == digital_write(b, CONTROLPIN, 1)

\* a handler that starts one more transfer before it writes the pin low
int_handler_transfers(b) == digital_write(spi_send(b, 104), CONTROLPIN, 0)

\* int_handler, line 31: digital_write(CONTROLPIN, 0); line 32 is exit(0)
int_handler(b) == digital_write(b, CONTROLPIN, 0)

\* SIGINT is delivered between two steps of the process: int_handler runs and
\* exits with status 0 if it is installed, else the signal ends the process
sigint ==
    /\ status = <<"running">>
    /\ pc # "api"
    /\ pc' = pc
    /\ \/ /\ handler
          /\ Commit(int_handler(Bus(gpio, spi)))
          /\ status' = <<"exit", 0>>
       \/ /\ ~handler
          /\ NoBus
          /\ status' = <<"signal">>
    /\ UNCHANGED <<ctlVars, locVars, envVars, mapVars, histVars, handler>>

Next ==
    \/ main_check_argc
    \/ main_parse_target
    \/ pio_init
    \/ spi_init_map
    \/ spi_init_pins
    \/ spi_init_regs
    \/ main_pin_mode
    \/ main_init_vars
    \/ main_sigaction
    \/ check_temp_enter
    \/ spi_send_receive
    \/ spi_slave_answers
    \/ check_temp_read
    \/ check_temp_report
    \/ check_temp_heater
    \/ check_temp_update
    \/ sigint

Spec == Init /\ [][Next]_vars

\* ------------------------------------------------ register-layer harness

PinArgs == -2 .. 55
FunctionArgs == 0 .. 9
ValArgs == {0, 1, 2}

\* the program's variables while only the register layer is exercised
IdleProgram ==
    /\ pc = "api"
    /\ argv = <<>>
    /\ target_temp = SzOfInt(0)
    /\ last_temp = SzOfInt(0)
    /\ overshoot = SzOfInt(0)
    /\ current_temp = SzOfInt(0)
    /\ one = 0
    /\ two = 0
    /\ handler = FALSE
    /\ status = <<"running">>
    /\ gpio_mapped = TRUE
    /\ spi_mapped = FALSE
    /\ char_signed = FALSE
    /\ spi = [cs |-> {}, clk |-> {}, rx |-> {}, tx |-> {}, busy |-> FALSE]
    /\ seen_max = SzOfInt(0)
    /\ entry_last = SzOfInt(0)
    /\ iter = <<>>
    /\ touched = FALSE

InitGpio ==
    /\ IdleProgram
    /\ \E k \in 0 .. NumPatterns - 1 : gpio = PriorGpio(k)
    /\ wr = <<>>
    /\ out = <<>>
    /\ call = NoCall
    /\ tmr = TimerOff
    /\ slp = NoSleep

\* one call pin_mode(p, f) on the drawn register file
ApiPinMode ==
    /\ pc = "api" /\ call = NoCall
    /\ \E p \in PinArgs, f \in FunctionArgs :
         LET b == pin_mode(Bus(gpio, spi), p, f) IN
         /\ gpio' = b.g /\ wr' = b.w /\ out' = b.o
         /\ call' = [op |-> "pin_mode", pin |-> p, arg |-> f, ret |-> 0, before |-> gpio]
    /\ UNCHANGED progVars

\* one call digital_write(p, v)
ApiDigitalWrite ==
    /\ pc = "api" /\ call = NoCall
    /\ \E p \in PinArgs, v \in ValArgs :
         LET b == digital_write(Bus(gpio, spi), p, v) IN
         /\ gpio' = b.g /\ wr' = b.w /\ out' = b.o
         /\ call' = [op |-> "digital_write", pin |-> p, arg |-> v, ret |-> 0, before |-> gpio]
    /\ UNCHANGED progVars

\* one call digital_read(p)
ApiDigitalRead ==
    /\ pc = "api" /\ call = NoCall
    /\ \E p \in PinArgs :
         LET r == digital_read(Bus(gpio, spi), p) IN
         /\ gpio' = r.b.g /\ wr' = r.b.w /\ out' = r.b.o
         /\ call' = [op |-> "digital_read", pin |-> p, arg |-> 0, ret |-> r.ret, before |-> gpio]
    /\ UNCHANGED progVars

\* clock frequencies and settings words (clock mode and chip-select bits, all
\* below the status bits of spi0[0]) a caller may pass
FreqArgs == {1, 3, 244000, 250000000, 250000001}
SettingsArgs == {0, 4, 12, 51}

\* one call spi_init(freq, settings) whose mapping succeeds
ApiSpiInit ==
    /\ pc = "api" /\ call = NoCall
    /\ \E freq \in FreqArgs, settings \in SettingsArgs :
         LET b == spi_init(Bus(gpio, spi), freq, settings) IN
         /\ gpio' = b.g /\ spi' = b.s /\ wr' = b.w /\ out' = b.o
         /\ call' = [op |-> "spi_init", freq |-> freq, settings |-> settings,
                     ret |-> 0, before |-> gpio]
    /\ spi_mapped' = TRUE
    /\ UNCHANGED <<pc, argv, target_temp, last_temp, overshoot, current_temp, one, two,
                   handler, status, gpio_mapped, char_signed, seen_max, entry_last,
                   iter, touched, tmr, slp>>

NextGpio == ApiPinMode \/ ApiDigitalWrite \/ ApiDigitalRead \/ ApiSpiInit

SpecGpio == InitGpio /\ [][NextGpio]_vars

\* ----------------------------------------------------------- system timer

\* the match bit M1 of sys_timer[0] (mask 0x2)
TIMER_M1 == 1

\* how many microsecond ticks of the counter a behaviour follows
MaxTicks == 3

\* What the peripheral does with a store to sys_timer[i]: a store to the
\* status register sys_timer[0] clears the match bits that are 1 in the word
\* stored; sys_timer[4] (C1) keeps the value; the counter ignores stores.
HwTimerStore(t, i, v) ==
    IF i = 0 THEN [t EXCEPT !.cs = @ \ v]
    ELSE IF i = 4 THEN [t EXCEPT !.c1 = v]
    ELSE t

\* One microsecond passes: the free-running counter sys_timer[1] advances by
\* one, modulo 2^32, and the match bit M1 is set if the counter is now at or
\* beyond the compare value C1; the bit stays set until it is cleared.
HwTimerTick(t) ==
    LET n == SzAdd(t.clo, SzOfInt(1))
    IN [t EXCEPT !.clo = n,
                 !.cs = IF SzLess(n, t.c1) THEN @ ELSE @ \cup {TIMER_M1}]

\* a sleep_micros without its test for zero
sleep_micros_returns_never(micros) == FALSE

\* sleep_micros, lines 197-199: if (micros == 0) return;
sleep_micros_returns(micros) == micros = 0

\* a call sleep_micros(micros) is entered
sleep_micros_entry(s, micros) ==
    [s EXCEPT !.micros = micros,
              !.pc = IF sleep_micros_returns(micros) THEN "done" ELSE "load_clo"]

\* sleep_micros, line 201: the value stored to C1, sys_timer[1] + micros with
\* the counter as loaded (unsigned arithmetic, modulo 2^32)
sleep_micros_compare(loaded, micros) == SzAdd(loaded, SzOfInt(micros))

\* sleep_micros, lines 201-203, one register access per step: the load of the
\* counter, the store of the compare value, the store that clears M1 and the
\* load that ends the wait once M1 is set
sleep_micros ==
    /\ pc = "api"
    /\ \/ /\ slp.pc = "load_clo"
          /\ slp' = [slp EXCEPT !.pc = "store_c1", !.t = tmr.clo, !.t0 = slp.ticks,
                                !.acc = Append(@, <<"load", 1>>)]
          /\ tmr' = tmr
       \/ /\ slp.pc = "store_c1"
          /\ tmr' = HwTimerStore(tmr, 4, sleep_micros_compare(slp.t, slp.micros))
          /\ slp' = [slp EXCEPT !.pc = "clear_m1", !.acc = Append(@, <<"store", 4>>)]
       \/ /\ slp.pc = "clear_m1"
          /\ tmr' = HwTimerStore(tmr, 0, BitsOf(2))
          /\ slp' = [slp EXCEPT !.pc = "poll", !.acc = Append(@, <<"store", 0>>)]
       \/ /\ slp.pc = "poll"
          /\ TIMER_M1 \in tmr.cs
          /\ slp' = [slp EXCEPT !.pc = "done", !.acc = Append(@, <<"load", 0>>)]
          /\ tmr' = tmr
    /\ UNCHANGED <<pc, argv, target_temp, last_temp, overshoot, current_temp, one, two,
                   handler, status, gpio_mapped, spi_mapped, char_signed, gpio, spi,
                   wr, out, seen_max, entry_last, iter, touched, call>>

\* the counter ticks, whatever the process is doing
timer_tick ==
    /\ pc = "api"
    /\ slp.ticks < MaxTicks
    /\ tmr' = HwTimerTick(tmr)
    /\ slp' = [slp EXCEPT
                 !.ticks = @ + 1,
                 !.ticked = @ \/ slp.pc = "poll",
                 !.hit = @ \/ (slp.pc = "poll" /\ ~SzLess(tmr'.clo, tmr.c1))]
    /\ UNCHANGED <<pc, argv, target_temp, last_temp, overshoot, current_temp, one, two,
                   handler, status, gpio_mapped, spi_mapped, char_signed, gpio, spi,
                   wr, out, seen_max, entry_last, iter, touched, call>>

MicrosArgs == 0 .. 3
MillisArgs == {0, 1}

\* counter values a call may find: far from the wrap and just before it
CounterStarts == {SzOfInt(5), <<Limb - 1, Limb - 3>>, <<Limb - 1, Limb - 1>>}

\* the timer after timer_init: mapped, with whatever an earlier use left in
\* the compare register and the match bit
InitTimer ==
    /\ IdleProgram
    /\ gpio = PriorGpio(0)
    /\ wr = <<>>
    /\ out = <<>>
    /\ call = NoCall
    /\ \E c \in CounterStarts, m \in SUBSET {TIMER_M1}, k \in {SzOfInt(0), SzOfInt(7)} :
          tmr = [mapped |-> TRUE, cs |-> m, clo |-> c, c1 |-> k]
    /\ slp = NoSleep

\* one call sleep_micros(d)
ApiSleepMicros ==
    /\ pc = "api" /\ slp.pc = "idle"
    /\ \E d \in MicrosArgs :
          slp' = [sleep_micros_entry(slp, d) EXCEPT !.op = "sleep_micros"]
    /\ UNCHANGED <<pc, argv, target_temp, last_temp, overshoot, current_temp, one, two,
                   handler, status, gpio_mapped, spi_mapped, char_signed, gpio, spi,
                   wr, out, seen_max, entry_last, iter, touched, call, tmr>>

\* one call sleep_millis(m), lines 211-214: sleep_micros(1000 * millis)
ApiSleepMillis ==
    /\ pc = "api" /\ slp.pc = "idle"
    /\ \E m \in MillisArgs :
          slp' = [sleep_micros_entry(slp, 1000 * m) EXCEPT !.op = "sleep_millis"]
    /\ UNCHANGED <<pc, argv, target_temp, last_temp, overshoot, current_temp, one, two,
                   handler, status, gpio_mapped, spi_mapped, char_signed, gpio, spi,
                   wr, out, seen_max, entry_last, iter, touched, call, tmr>>

NextTimer == ApiSleepMicros \/ ApiSleepMillis \/ sleep_micros \/ timer_tick

SpecTimer == InitTimer /\ [][NextTimer]_vars

\* ------------------------------------------------- claims: register layer

\* the bits of pin p's function-select field within its register
FieldBits(p) == {(p % 10) * 3, (p % 10) * 3 + 1, (p % 10) * 3 + 2}

\* the function code held by pin p's field in the register file g
FieldOf(g, p) ==
    LET w == g[p \div 10]
        bit(j) == IF (p % 10) * 3 + j \in w THEN 1 ELSE 0
    IN bit(0) + 2 * bit(1) + 4 * bit(2)

ValidPin == 0 .. 53

\* C8: for every pin p in 0..53, function f in 0..7 and prior register content,
\* after pin_mode(p, f) the field of p (register p/10, offset (p%10)*3) holds f,
\* every other bit of that register and every other register is as before.
C8_PinModeSetsOnlyItsField ==
    (call.op = "pin_mode" /\ call.pin \in ValidPin /\ call.arg \in 0 .. 7) =>
        /\ FieldOf(gpio, call.pin) = call.arg
        /\ \A q \in ValidPin \ {call.pin} : FieldOf(gpio, q) = FieldOf(call.before, q)
        /\ gpio[call.pin \div 10] \ FieldBits(call.pin)
             = call.before[call.pin \div 10] \ FieldBits(call.pin)
        /\ \A i \in GpioIndex \ {call.pin \div 10} : gpio[i] = call.before[i]

\* a call that had to clear bits: the field held 7 and now holds ALT0
C8_Witness ==
    /\ call.op = "pin_mode" /\ call.pin = 53 /\ call.arg = ALT0
    /\ FieldOf(call.before, 53) = 7
    /\ FieldOf(gpio, 53) = ALT0

\* C9: for every pin p in 0..53, digital_write(p, v) makes exactly one register
\* write: the word with the single bit p mod 32, to the set register (v nonzero)
\* or the clear register (v zero) of p's bank (first for p < 32, else second).
C9_WriteIsOneBitToOneRegister ==
    (call.op = "digital_write" /\ call.pin \in ValidPin) =>
        LET bank == IF call.pin < 32 THEN 0 ELSE 1
            reg == (IF call.arg # 0 THEN GPSET ELSE GPCLR) + bank
        IN /\ wr = << <<"gpio", reg, {call.pin % 32}>> >>
           /\ \A i \in GpioIndex \ {GPLEV + bank} : gpio[i] = call.before[i]
           /\ gpio[GPLEV + bank] \ {call.pin % 32}
                = call.before[GPLEV + bank] \ {call.pin % 32}
           /\ (call.pin % 32 \in gpio[GPLEV + bank]) <=> (call.arg # 0)

\* a write to a pin of the second bank, which raises a level that was low
C9_Witness ==
    /\ call.op = "digital_write" /\ call.pin = 53 /\ call.arg = 1
    /\ wr = << <<"gpio", 8, {21}>> >>
    /\ 21 \notin call.before[14]
    /\ 21 \in gpio[14]

\* C10: with a pin below 0 or above 53, pin_mode, digital_write and digital_read
\* write no register and leave the register file as it was, and digital_read
\* returns 0; pins 0 and 53 are acted on.
C10_PinRangeRejection ==
    /\ (call.op \in {"pin_mode", "digital_write", "digital_read"}
          /\ call.pin \notin ValidPin) =>
          /\ wr = <<>>
          /\ gpio = call.before
          /\ call.ret = 0
          /\ out = << <<"bad pin", call.pin>> >>
    /\ (call.op = "pin_mode" /\ call.pin \in {0, 53}) =>
          /\ Len(wr) = 2
          /\ \A k \in 1 .. 2 : wr[k][1] = "gpio" /\ wr[k][2] = call.pin \div 10
          /\ call.arg \in 0 .. 7 => FieldOf(gpio, call.pin) = call.arg
    /\ (call.op = "digital_write" /\ call.pin \in {0, 53}) =>
          /\ Len(wr) = 1
          /\ (call.pin % 32 \in gpio[IF call.pin < 32 THEN 13 ELSE 14]) <=> (call.arg # 0)
    /\ (call.op = "digital_read" /\ call.pin \in {0, 53}) =>
          /\ wr = <<>>
          /\ call.ret = IF (call.pin % 32) \in call.before[IF call.pin < 32 THEN 13 ELSE 14]
                        THEN 1 ELSE 0

\* pin 54 is rejected although the bit a read of it would reach is 1
C10_Witness ==
    /\ call.op = "digital_read" /\ call.pin = 54
    /\ 22 \in call.before[14]
    /\ call.ret = 0

\* C11: pin_mode with a pin in 0..53 and a function code outside 0..7 is
\* rejected without touching the hardware: every function-select register holds
\* after the call what it held before, and no register is written.
C11_BadFunctionRejected ==
    (call.op = "pin_mode" /\ call.pin \in ValidPin /\ call.arg \notin 0 .. 7) =>
        /\ \A i \in GPFSEL .. GPFSEL + 5 : gpio[i] = call.before[i]
        /\ wr = <<>>

\* C18: for every pin p in 0..53 and every function code with which pin_mode
\* goes on to its two stores, the codes above 7 that are only logged included,
\* the 3-bit field of every pin other than p holds what it held before.
C18_PinModeKeepsOtherFields ==
    (call.op = "pin_mode" /\ call.pin \in ValidPin /\ wr # <<>>) =>
        \A q \in ValidPin \ {call.pin} : FieldOf(gpio, q) = FieldOf(call.before, q)

\* the pins spi_init hands to the SPI0 block
SpiPins == 8 .. 11

\* C17: after spi_init(freq, settings) with freq > 0 the function-select
\* fields of exactly pins 8, 9, 10, 11 hold ALT0 = 4 and every other pin's
\* field, and every other register bit, is as before; the clock-divider
\* register holds 250000000 div freq; the control register holds settings OR
\* 0x80, every settings bit kept; the writes come in the order pin modes,
\* divider, settings, transfer-enable.
C17_SpiInitRegisters ==
    (call.op = "spi_init" /\ call.freq > 0) =>
        /\ \A p \in SpiPins : FieldOf(gpio, p) = 4
        /\ \A q \in ValidPin \ SpiPins : FieldOf(gpio, q) = FieldOf(call.before, q)
        /\ \A i \in GpioIndex :
              gpio[i] \ (IF i = 0 THEN 24 .. 29 ELSE IF i = 1 THEN 0 .. 5 ELSE {})
                = call.before[i] \ (IF i = 0 THEN 24 .. 29 ELSE IF i = 1 THEN 0 .. 5 ELSE {})
        /\ IntOf(spi.clk) = 250000000 \div call.freq
        /\ call.freq = 244000 => spi.clk = {10}
        /\ spi.cs = BitsOf(call.settings) \cup {7}
        /\ Len(wr) = 11
        /\ \A k \in 1 .. 8 : wr[k][1] = "gpio" /\ wr[k][2] = (IF k <= 4 THEN 0 ELSE 1)
        /\ wr[9] = <<"spi", 2, spi.clk>>
        /\ wr[10] = <<"spi", 0, BitsOf(call.settings)>>
        /\ wr[11] = <<"spi", 0, BitsOf(call.settings) \cup {7}>>

\* spi_init(244000, 12) found pin 8 with function 7 and left it with ALT0,
\* the divider 1024 and the settings bits beside the transfer-enable bit
C17_Witness ==
    /\ call.op = "spi_init" /\ call.freq = 244000 /\ call.settings = 12
    /\ FieldOf(call.before, 8) = 7 /\ FieldOf(gpio, 8) = 4
    /\ spi.clk = {10}
    /\ spi.cs = {2, 3, 7}

\* ------------------------------------------------------ claims: the timer

\* C14: sleep_micros(0), and so sleep_millis(0), returns at once: the call
\* stores to neither the compare register nor the status register and makes
\* no load of either (no polling); the timer registers are as before the call.
C14_SleepZeroReturnsAtOnce ==
    /\ []((slp.op # "none" /\ slp.micros = 0) => (slp.pc = "done" /\ slp.acc = <<>>))
    /\ [][(slp.pc = "idle" /\ slp'.pc # "idle" /\ slp'.micros = 0) =>
            (slp'.pc = "done" /\ tmr' = tmr)]_vars

\* sleep_millis(0) has returned with the match bit clear and no tick gone by
C14_Witness ==
    /\ slp.op = "sleep_millis" /\ slp.micros = 0
    /\ slp.pc = "done"
    /\ slp.acc = <<>>
    /\ slp.ticks = 0
    /\ TIMER_M1 \notin tmr.cs

\* the counter has advanced by the call's argument or more since the call
\* loaded it: it has reached or passed the compare value (counter + d) mod 2^32
CounterPassedCompare == slp.ticks - slp.t0 >= slp.micros

\* the register accesses with which sleep_micros(d), d # 0, begins
SleepPrologue == << <<"load", 1>>, <<"store", 4>>, <<"store", 0>> >>

\* C15: for d > 0, sleep_micros(d) sets the compare register to (counter + d)
\* mod 2^32, then clears the match bit, then polls it; however the counter's
\* ticks fall between these accesses, the call returns only after the counter
\* has reached the compare value, and it does not go on waiting once the
\* counter has reached or passed the compare value.
C15_SleepWaitsForCompare ==
    /\ (slp.pc = "clear_m1" /\ slp.micros > 0) =>
          tmr.c1 = SzAdd(slp.t, SzOfInt(slp.micros))
    /\ (slp.pc = "poll" /\ slp.micros > 0) => slp.acc = SleepPrologue
    /\ (slp.pc = "done" /\ slp.micros > 0) =>
          (slp.hit /\ slp.acc = Append(SleepPrologue, <<"load", 0>>))
    /\ (slp.pc = "poll" /\ slp.micros > 0 /\ CounterPassedCompare /\ slp.ticked) =>
          TIMER_M1 \in tmr.cs

\* ---------------------------------------------------- claims: the program

Running == status = <<"running">>

\* an iteration of the control loop has just completed
IterationDone == Running /\ pc = "loop" /\ iter.n # 0

\* the positions of main once the loop variables are initialised (line 129)
LoopPcs == {"sigaction", "loop", "send1", "poll1", "recv1", "send2", "poll2", "recv2",
            "convert", "cmp_last", "print_temp", "set_last", "cmp_target",
            "print_over", "heater", "update"}

\* C1: each iteration writes the heater pin (GPIO 17) high if the reading c is
\* below the target and low otherwise, so after every iteration the heater is on
\* exactly when the latest reading is below the target; with target 50 the
\* readings 45, 45, 52, 52, 49 give on, on, off, off, on.
C1_HeaterFollowsReading ==
    /\ (Running /\ pc = "update") =>
          wr = << <<"gpio",
                    IF SzLess(current_temp, target_temp) THEN GPSET ELSE GPCLR,
                    {CONTROLPIN}>> >>
    /\ IterationDone => (HeaterOn(gpio) <=> SzLess(current_temp, target_temp))
    /\ iter.n = Len(Scenario) => iter.heat = <<TRUE, TRUE, FALSE, FALSE, TRUE>>

\* the scenario has run to its end and left the heater on
C1_Witness ==
    /\ IterationDone /\ iter.n = Len(Scenario)
    /\ target_temp = SzOfInt(50) /\ current_temp = SzOfInt(49)
    /\ HeaterOn(gpio)

\* C2: once int_handler is installed a SIGINT can be delivered at every point of
\* the loop, and the step that ends the process then makes exactly one register
\* write, the clear bit of pin 17, exits with status 0, leaves the heater off and
\* changes no function-select register, no SPI register and none of target_temp,
\* last_temp, overshoot.
C2_SigintTurnsHeaterOffAndExits ==
    /\ []((handler /\ Running) => ENABLED sigint)
    /\ [][(handler /\ Running /\ status' # <<"running">>) =>
            /\ status' = <<"exit", 0>>
            /\ wr' = << <<"gpio", GPCLR, {CONTROLPIN}>> >>
            /\ ~HeaterOn(gpio')
            /\ \A i \in GpioIndex \ {GPLEV} : gpio'[i] = gpio[i]
            /\ gpio'[GPLEV] = gpio[GPLEV] \ {CONTROLPIN}
            /\ spi' = spi
            /\ UNCHANGED <<target_temp, last_temp, overshoot>>]_vars

\* the signal came after the heater had been switched on and before the next
\* reading, while the process was waiting for the converter
C2_Witness ==
    /\ status = <<"exit", 0>>
    /\ pc = "poll1"
    /\ iter.n = 1
    /\ SzLess(current_temp, target_temp)
    /\ ~HeaterOn(gpio)
    /\ wr = << <<"gpio", GPCLR, {CONTROLPIN}>> >>

\* an overshoot line has just been printed
OvershootPrinted == Running /\ pc = "heater" /\ OvershootLines(out) # <<>>

\* C3: an overshoot line printed for a changed reading c at or above the target
\* reports (largest reading so far, c included) - target; with target 50 and
\* readings 45, 45, 52, 52, 49 exactly one overshoot line is printed, with 2.
C3_OvershootIsMaxMinusTarget ==
    /\ OvershootPrinted =>
          OvershootLines(out)[1][2] = FormatLu(SzSub(seen_max, target_temp))
    /\ iter.n = Len(Scenario) => iter.over = <<FormatLu(SzOfInt(2))>>

\* C4: when the recorded overshoot is below the target as the line is printed,
\* the number printed is the negative integer overshoot - target: a minus sign
\* followed by target - overshoot.
C4_OvershootPrintedSigned ==
    (OvershootPrinted /\ SzLess(overshoot, target_temp)) =>
        OvershootLines(out)[1][2] = [neg |-> TRUE, mag |-> SzSub(target_temp, overshoot)]

\* C5: after every iteration overshoot is the largest reading seen so far
\* (from 0), whether or not the iteration printed anything, and from one step to
\* the next it never decreases.
C5_OvershootIsRunningMax ==
    /\ [](IterationDone => overshoot = seen_max)
    /\ [][(Running /\ pc \in LoopPcs) => ~SzLess(overshoot', overshoot)]_vars

\* an iteration that printed the temperature but no overshoot line has raised
\* overshoot to its reading
C5_Witness ==
    /\ IterationDone
    /\ Len(out) = 1
    /\ overshoot = current_temp
    /\ SzLess(SzOfInt(0), overshoot)
    /\ SzLess(current_temp, target_temp)

\* C6: an iteration prints a "current temp" line, and records the reading in
\* last_temp, exactly if the reading differs from the one recorded before; an
\* unchanged reading prints nothing, and no overshoot line is printed without a
\* temperature line before it.
C6_ReportOnlyOnChange ==
    /\ IterationDone =>
          /\ (current_temp # entry_last) =>
                TempLines(out) = << <<"current temp", FormatLu(current_temp)>> >>
          /\ (current_temp = entry_last) => out = <<>>
          /\ last_temp = current_temp
    /\ (Running /\ OvershootLines(out) # <<>> /\ pc \in LoopPcs) =>
          /\ Len(OvershootLines(out)) = 1
          /\ Len(out) = 2
          /\ out[1][1] = "current temp"

\* the second iteration read 45 again and printed nothing
C6_Witness ==
    /\ IterationDone /\ iter.n = 2
    /\ current_temp = SzOfInt(45) /\ entry_last = SzOfInt(45)
    /\ out = <<>>

\* the 10-bit sample carried by the answer bytes b1, b2 that the chars o, t
\* were loaded from: ((b1 & 0x03) << 8) | b2
RawSample(o, t) == (o % 4) * 256 + (t % 256)

SpiBlocked == Running /\ pc \in {"poll1", "poll2"} /\ ~spi_transfer_done(spi)

\* C13: while the loop waits for a transfer-complete bit that is not set, the
\* process itself can take no step but a SIGINT can still be delivered; the
\* step that then ends the process starts no SPI transfer (no SPI register is
\* written, the SPI registers are as before), reads no temperature (one, two,
\* current_temp, last_temp are as before), exits with status 0 and leaves the
\* heater pin written low.
C13_SigintWhileSpiBlocked ==
    /\ [](SpiBlocked => (handler /\ ENABLED sigint /\ ~ENABLED spi_send_receive))
    /\ [][(SpiBlocked /\ ~Running') =>
            /\ status' = <<"exit", 0>>
            /\ pc' = pc
            /\ \A k \in 1 .. Len(wr') : wr'[k][1] # "spi"
            /\ wr'[Len(wr')] = <<"gpio", GPCLR, {CONTROLPIN}>>
            /\ spi' = spi
            /\ UNCHANGED <<one, two, current_temp, last_temp>>
            /\ ~HeaterOn(gpio')]_vars

\* the signal ended the process in the second wait of the second iteration,
\* the transfer still in flight, with the heater switched on by the first
C13_Witness ==
    /\ status = <<"exit", 0>>
    /\ pc = "poll2"
    /\ spi.busy /\ ~spi_transfer_done(spi)
    /\ iter.n = 1 /\ iter.heat = <<TRUE>>
    /\ ~HeaterOn(gpio)

\* C16: spi_send_receive first stores the byte to send in the data register,
\* leaves its wait only when it has seen the transfer-complete bit set, and
\* returns the data register as loaded after that; there is no timeout: while
\* the bit stays clear and the process has not been ended, the process stays in
\* the wait and no register, the heater's included, is written.
C16_TransferWaitsForCompletion ==
    /\ [][(Running /\ pc \in {"send1", "send2"} /\ pc' # pc) =>
            /\ pc' = (IF pc = "send1" THEN "poll1" ELSE "poll2")
            /\ wr' = << <<"spi", 1, BitsOf(IF pc = "send1" THEN 104 ELSE 0)>> >>
            /\ spi'.tx = BitsOf(IF pc = "send1" THEN 104 ELSE 0)
            /\ ~spi_transfer_done(spi')]_vars
    /\ [][(Running /\ pc \in {"poll1", "poll2"} /\ pc' # pc) =>
            /\ spi_transfer_done(spi)
            /\ pc' = (IF pc = "poll1" THEN "recv1" ELSE "recv2")]_vars
    /\ [][(Running /\ pc = "recv1" /\ pc' # pc) =>
            one' % 256 = SumPow(spi.rx \cap (0 .. 7))]_vars
    /\ [][(Running /\ pc = "recv2" /\ pc' # pc) =>
            two' % 256 = SumPow(spi.rx \cap (0 .. 7))]_vars
    /\ [][(SpiBlocked /\ Running' /\ ~spi_transfer_done(spi')) =>
            /\ pc' = pc
            /\ wr' = <<>>
            /\ gpio' = gpio]_vars

\* the second transfer of the second iteration is in flight, unanswered, and
\* the heater is still on from the first iteration
C16_Witness ==
    /\ SpiBlocked
    /\ pc = "poll2"
    /\ spi.busy /\ spi.tx = BitsOf(0)
    /\ iter.n = 1
    /\ HeaterOn(gpio)

\* the positions at which the next step loads or stores an SPI0 register
SpiAccessPcs == {"spi_clk", "spi_cs", "spi_ta", "send1", "poll1", "recv1",
                 "send2", "poll2", "recv2"}

\* the positions at which the next step stores to a GPIO register
GpioAccessPcs == {"spi_pin8", "spi_pin9", "spi_pin10", "spi_pin11", "pin17", "heater"}

\* C19: in every execution of main no peripheral register is loaded or stored
\* through a region that is not yet mapped: the GPIO block is mapped before
\* spi_init's pin-mode writes, before pin 17 is configured and before the
\* SIGINT handler (which writes GPIO) is installed; the SPI block is mapped
\* before the first transfer; the timer block, which main never maps, is never
\* accessed.
C19_MappedBeforeAccess ==
    /\ [][\A k \in 1 .. Len(wr') :
            /\ wr'[k][1] = "gpio" => gpio_mapped
            /\ wr'[k][1] = "spi" => spi_mapped]_vars
    /\ []((Running /\ pc \in GpioAccessPcs) => gpio_mapped)
    /\ []((Running /\ pc \in SpiAccessPcs) => spi_mapped)
    /\ [](handler => gpio_mapped)
    /\ [](touched => gpio_mapped)
    /\ [](~tmr.mapped /\ tmr = TimerOff /\ slp = NoSleep)

\* the first register access of the run, pin_mode(8, ALT0), has been made with
\* both blocks mapped and no handler installed yet
C19_Witness ==
    /\ Running /\ pc = "spi_pin9"
    /\ Len(wr) = 2 /\ wr[1][1] = "gpio"
    /\ gpio_mapped /\ spi_mapped
    /\ ~handler

\* the writes w include one that raises the level of the heater pin
HeaterOnWrite(w) ==
    \E k \in 1 .. Len(w) : w[k][1] = "gpio" /\ w[k][2] = GPSET /\ CONTROLPIN \in w[k][3]

\* C20: a write that switches the heater on is only made once pin 17 is an
\* output and the SIGINT handler is installed; the handler stays installed;
\* before it is installed no step changes a pin level, and once it is, every
\* step that ends the process leaves the heater off: in no reachable state has
\* this process switched the heater on while a SIGINT would end it without the
\* heater-off write.
C20_HeaterOnOnlyWhenGuarded ==
    /\ [][HeaterOnWrite(wr') =>
            (handler /\ FieldOf(gpio, CONTROLPIN) = OUTPUT /\ pc = "heater")]_vars
    /\ [][handler => handler']_vars
    /\ [][~handler' =>
            (gpio'[GPLEV] = gpio[GPLEV] /\ gpio'[GPLEV + 1] = gpio[GPLEV + 1])]_vars
    /\ [][(handler /\ Running /\ ~Running') =>
            (~HeaterOn(gpio') /\ wr' = << <<"gpio", GPCLR, {CONTROLPIN}>> >>)]_vars

\* the first iteration has switched the heater on, with the handler installed
\* and pin 17 an output
C20_Witness ==
    /\ Running /\ pc = "update" /\ iter.n = 0
    /\ HeaterOnWrite(wr)
    /\ HeaterOn(gpio)
    /\ handler
    /\ FieldOf(gpio, CONTROLPIN) = OUTPUT

\* no peripheral has been mapped and no register written
HardwareUntouched == ~gpio_mapped /\ ~spi_mapped /\ ~touched

\* the target given on the command line is a number outside 30 .. 70
ArgOutOfRange == strtol(argv[2]) < 30 \/ strtol(argv[2]) > 70

\* C7: with an argument count other than one the process exits with 1; with one
\* argument whose parsed value is outside 30 .. 70 it exits with 2; in both cases
\* before any peripheral is mapped or written; one argument within 30 .. 70 goes
\* on to the hardware initialisation.
C7_CommandLineValidation ==
    /\ Len(argv) # 2 =>
          /\ pc = "main" /\ HardwareUntouched
          /\ status \in {<<"running">>, <<"signal">>, <<"exit", 1>>}
    /\ (Len(argv) = 2 /\ ArgOutOfRange) =>
          /\ pc \in {"main", "parse"} /\ HardwareUntouched
          /\ status \in {<<"running">>, <<"signal">>, <<"exit", 2>>}
          /\ status = <<"exit", 2>> => pc = "parse"
    /\ (Len(argv) = 2 /\ ~ArgOutOfRange) =>
          /\ status \notin {<<"exit", 1>>, <<"exit", 2>>}
          /\ pc \in {"main", "parse"} => status \in {<<"running">>, <<"signal">>}
    /\ argv = <<ProgName, <<"8", "0">> >> =>
          HardwareUntouched /\ status \in {<<"running">>, <<"signal">>, <<"exit", 2>>}
    /\ argv = <<ProgName, <<"5", "0">>, <<"6", "0">> >> =>
          HardwareUntouched /\ status \in {<<"running">>, <<"signal">>, <<"exit", 1>>}
    /\ (argv = <<ProgName, <<"5", "0">> >> /\ pc \notin {"main", "parse"}) =>
          target_temp = SzOfInt(50) /\ status \notin {<<"exit", 1>>, <<"exit", 2>>}

\* "80" has been refused with 2 and nothing was touched
C7_Witness ==
    /\ argv = <<ProgName, <<"8", "0">> >>
    /\ status = <<"exit", 2>>
    /\ HardwareUntouched

==========================================================================
